---------------------------- MODULE Spec2Model ----------------------------
(***************************************************************************)
(* Model of the background cycling hook useBackgroundCycle and of the      *)
(* colour helpers it calls (src/unnamed/part_000).                         *)
(*                                                                         *)
(* The hook's state (useState cells and useRef cells) are the variables.   *)
(* A setState call made by a callback is applied at once.  The re-render   *)
(* that React schedules for it is the separate step Render: the hook body  *)
(* runs and builds its dependency arrays and closures from the index of    *)
(* that render.  The effects of that render run in a third step,           *)
(* FlushEffects, since React defers useEffect until after the commit; a    *)
(* timer or an image callback may run before either step.                  *)
(*                                                                         *)
(* Numbers are IEEE-754 doubles, computed digit by digit with every       *)
(* operation rounded as JavaScript rounds it; an "r g b" string is kept    *)
(* as the triple <<r, g, b>> of its rounded components.  Time is counted   *)
(* in abstract units: every live timer carries the units left until it is  *)
(* due, and a due timer may fire late but never early.                     *)
(***************************************************************************)
EXTENDS Integers, Sequences, FiniteSets

VARIABLES
    imageUrls,          \* the imageUrls argument (a sequence of URLs)
    intervalMs,         \* options.intervalMs
    crossfadeMs,        \* options.crossfadeMs
    images,             \* what each URL decodes to (the environment's answer)
    sampled,            \* what the sample of each URL comes to, computed from images once
    index,              \* useState(0)
    renderIndex,        \* the value of index in the latest run of the hook body
    previousIndex,      \* useState(null): <<>> is null, <<i>> is the number i
    isFading,           \* useState(false)
    accentPrimaryRgb,   \* useState('85 37 131')
    accentSecondaryRgb, \* useState('253 185 39')
    timerRef,           \* useRef(null): 0 is null, else a timer handle
    fadeRef,            \* useRef(null): 0 is null, else a timer handle
    intervals,          \* live setInterval timers, each with its callback's closure
    timeouts,           \* live setTimeout timers
    nextHandle,         \* next handle the browser hands out
    timerDeps,          \* dependency array of the timer effect at its last run
    accentDep,          \* dependency array of the accent effect at its last run
    samples,            \* computeAverageColor promises not yet resolved
    nextSample,         \* number of the next sample request
    mounted,            \* FALSE once the component is unmounted
    ticks,              \* history: number of timer ticks so far
    sinceTick,          \* history: time units since the most recent tick (saturating)
    applied,            \* history: <<request id, url>> of the sample applied last, <<>> if none
    overlapped,         \* history: TRUE once a tick has cancelled a fade-clear that was pending
    stops,              \* history: number of runs of the timer teardown at and after the unmount
    reconfigs,          \* history: number of times the hook's arguments have changed
    last                \* history: name of the last step taken

vars == <<imageUrls, intervalMs, crossfadeMs, images, sampled, index, renderIndex, previousIndex,
          isFading, accentPrimaryRgb, accentSecondaryRgb, timerRef, fadeRef, intervals, timeouts,
          nextHandle, timerDeps, accentDep, samples, nextSample, mounted, ticks,
          sinceTick, applied, overlapped, stops, reconfigs, last>>

-----------------------------------------------------------------------------
(* Bounds of the model *)

MaxLen == 3
MaxTicks == 3
MaxInterval == 2
MaxCrossfade == 2
MaxStops == 2
MaxReconfigs == 1

(* Program constants *)

ByteMax == 255
AlphaMax == 255

Urls == {"a", "b", "c"}

\* A value of type string | null: <<>> is null, <<u>> is the string u
Absent == <<>>

\* `if (currentUrl)`: null and the empty string are falsy
Truthy(url) == url # Absent /\ url[1] # ""

-----------------------------------------------------------------------------
(* JavaScript numbers: IEEE-754 doubles, every operation rounded to nearest, ties to
   even.  The hook computes with finite non-negative numbers only.

   A double x is [m |-> M, e |-> E] with x = M * 2^E, where M < 2^53 is a natural number
   written as the sequence of its digits in base Radix, least significant digit first
   and the most significant digit not 0 (<<>> is the number 0), and E is the exponent
   that makes M odd; the double 0 is [m |-> <<>>, e |-> 0]. *)

Radix == 16384
DigitBits == 14
MantissaBits == 53

\* digits kept below the binary point of a quotient before it is rounded
GuardDigits == 5

RECURSIVE Digits(_)
Digits(n) == IF n = 0 THEN <<>> ELSE <<n % Radix>> \o Digits(n \div Radix)

RECURSIVE ToInt(_)
ToInt(N) == IF N = <<>> THEN 0 ELSE Head(N) + Radix * ToInt(Tail(N))

RECURSIVE Trim(_)
Trim(N) == IF N # <<>> /\ N[Len(N)] = 0 THEN Trim(SubSeq(N, 1, Len(N) - 1)) ELSE N

RECURSIVE AddDigits(_, _, _)
AddDigits(A, B, carry) ==
    IF A = <<>> /\ B = <<>> THEN (IF carry = 0 THEN <<>> ELSE <<carry>>)
    ELSE LET s == (IF A = <<>> THEN 0 ELSE Head(A)) + (IF B = <<>> THEN 0 ELSE Head(B)) + carry
         IN  <<s % Radix>> \o AddDigits(IF A = <<>> THEN A ELSE Tail(A),
                                        IF B = <<>> THEN B ELSE Tail(B), s \div Radix)

RECURSIVE MulDigit(_, _, _)
MulDigit(A, k, carry) ==
    IF A = <<>> THEN (IF carry = 0 THEN <<>> ELSE <<carry>>)
    ELSE LET p == Head(A) * k + carry
         IN  <<p % Radix>> \o MulDigit(Tail(A), k, p \div Radix)

RECURSIVE MulDigits(_, _)
MulDigits(A, B) ==
    IF A = <<>> \/ B = <<>> THEN <<>>
    ELSE AddDigits(MulDigit(A, Head(B), 0),
                   IF Tail(B) = <<>> THEN <<>> ELSE <<0>> \o MulDigits(A, Tail(B)), 0)

\* quotient and remainder of rem * Radix^Len(N) + N by d, for rem < d <= 2^17
RECURSIVE DivDigits(_, _, _)
DivDigits(N, d, rem) ==
    IF N = <<>> THEN [q |-> <<>>, r |-> rem]
    ELSE LET top == rem * Radix + N[Len(N)]
             rest == DivDigits(SubSeq(N, 1, Len(N) - 1), d, top % d)
         IN  [q |-> rest.q \o <<top \div d>>, r |-> rest.r]

LessDigits(A, B) ==
    \/ Len(A) < Len(B)
    \/ /\ Len(A) = Len(B)
       /\ \E i \in 1..Len(A) : A[i] < B[i] /\ \A j \in (i + 1)..Len(A) : A[j] = B[j]

\* N * 2^s
ShiftLeft(N, s) ==
    IF N = <<>> THEN <<>>
    ELSE [i \in 1..(s \div DigitBits) |-> 0] \o MulDigit(N, 2 ^ (s % DigitBits), 0)

\* floor(N / 2^s)
ShiftRight(N, s) ==
    LET rest == SubSeq(N, s \div DigitBits + 1, Len(N))
        r == s % DigitBits
    IN  Trim([i \in 1..Len(rest) |->
                 (rest[i] \div 2 ^ r)
                     + (IF i < Len(rest) THEN (rest[i + 1] % 2 ^ r) * 2 ^ (DigitBits - r) ELSE 0)])

\* bit i of N
Bit(N, i) ==
    IF i \div DigitBits + 1 > Len(N) THEN 0
    ELSE (N[i \div DigitBits + 1] \div 2 ^ (i % DigitBits)) % 2

\* some bit of N below bit i is set
AnyBelow(N, i) ==
    \E j \in 1..Len(N) :
        \/ j - 1 < i \div DigitBits /\ N[j] # 0
        \/ j - 1 = i \div DigitBits /\ N[j] % 2 ^ (i % DigitBits) # 0

\* number of bits of N
BitLength(N) ==
    IF N = <<>> THEN 0
    ELSE DigitBits * (Len(N) - 1)
             + (CHOOSE w \in 1..DigitBits : 2 ^ (w - 1) <= N[Len(N)] /\ N[Len(N)] < 2 ^ w)

\* number of zero bits at the low end of N # 0
TrailingZeros(N) ==
    LET j == CHOOSE k \in 1..Len(N) : N[k] # 0 /\ \A l \in 1..(k - 1) : N[l] = 0
    IN  DigitBits * (j - 1)
            + (CHOOSE w \in 0..(DigitBits - 1) : N[j] % 2 ^ (w + 1) # 0 /\ N[j] % 2 ^ w = 0)

Canonical(N, e) ==
    IF N = <<>> THEN [m |-> <<>>, e |-> 0]
    ELSE [m |-> ShiftRight(N, TrailingZeros(N)), e |-> e + TrailingZeros(N)]

\* The double nearest to the real number (N + f) * 2^e, ties to even, where 0 <= f < 1
\* and f > 0 exactly if inexact; N has more than 53 bits when inexact
RoundToDouble(N, e, inexact) ==
    LET s == BitLength(N) - MantissaBits
    IN  IF s <= 0 THEN Canonical(N, e)
        ELSE LET up == /\ Bit(N, s - 1) = 1
                       /\ inexact \/ AnyBelow(N, s - 1) \/ Bit(N, s) = 1
             IN  Canonical(IF up THEN AddDigits(ShiftRight(N, s), <<1>>, 0)
                           ELSE ShiftRight(N, s), e + s)

\* the integer k >= 0 as a double
Num(k) == Canonical(Digits(k), 0)

\* n / d for integers n >= 0 and 1 <= d <= 2^17 (r / count, line 54); also the value of a
\* decimal literal n/d (1.05 is 105/100, 1.25 is 125/100)
Divide(n, d) ==
    LET qr == DivDigits([i \in 1..GuardDigits |-> 0] \o Digits(n), d, 0)
    IN  RoundToDouble(Trim(qr.q), -(GuardDigits * DigitBits), qr.r # 0)

\* x * y
Times(x, y) == RoundToDouble(Trim(MulDigits(x.m, y.m)), x.e + y.e, FALSE)

\* x + y
Plus(x, y) ==
    LET e == IF x.e < y.e THEN x.e ELSE y.e
    IN  RoundToDouble(AddDigits(ShiftLeft(x.m, x.e - e), ShiftLeft(y.m, y.e - e), 0), e, FALSE)

\* x < y
Less(x, y) ==
    LET e == IF x.e < y.e THEN x.e ELSE y.e
    IN  LessDigits(ShiftLeft(x.m, x.e - e), ShiftLeft(y.m, y.e - e))

MathMax(x, y) == IF Less(x, y) THEN y ELSE x

MathMin(x, y) == IF Less(y, x) THEN y ELSE x

\* Math.floor
MathFloor(x) ==
    IF x.e >= 0 THEN ToInt(ShiftLeft(x.m, x.e)) ELSE ToInt(ShiftRight(x.m, -x.e))

\* Math.round: the nearest integer, halves rounded up
MathRound(x) == IF x.e >= 0 THEN MathFloor(x) ELSE MathFloor(x) + Bit(x.m, -x.e - 1)

-----------------------------------------------------------------------------
(* Colour helpers *)

\* Faulty variant of clamp: the upper limit is not applied
clampNoMax(value, min, max) == MathMax(min, value)

clamp(value, min, max) == MathMax(min, MathMin(max, value))

\* Faulty variant of toRgbTripletString: components are truncated, not rounded
toRgbTripletStringFloor(r, g, b) == <<MathFloor(r), MathFloor(g), MathFloor(b)>>

toRgbTripletString(r, g, b) == <<MathRound(r), MathRound(g), MathRound(b)>>

lighten(c) == clamp(Plus(Times(c, Divide(125, 100)), Num(20)), Num(0), Num(ByteMax))

deriveSecondaryFromPrimary(r, g, b) == toRgbTripletString(lighten(r), lighten(g), lighten(b))

boost(c) == clamp(Times(c, Divide(105, 100)), Num(0), Num(ByteMax))

Fallback == <<Num(85), Num(37), Num(131)>>

\* Faulty variant of Skipped: the alpha byte itself is compared, not its fraction of 255
SkippedByte(px) == 10 * px[4] < 1

\* data[i + 3] / 255 < 0.1
Skipped(px) == 10 * px[4] < AlphaMax

RECURSIVE SumChannel(_, _)
SumChannel(data, ch) ==
    IF data = <<>> THEN 0
    ELSE (IF Skipped(Head(data)) THEN 0 ELSE Head(data)[ch]) + SumChannel(Tail(data), ch)

RECURSIVE Count(_)
Count(data) ==
    IF data = <<>> THEN 0
    ELSE (IF Skipped(Head(data)) THEN 0 ELSE 1) + Count(Tail(data))

\* Faulty variant of computeAverageColor: the catch block resolves with black
computeAverageColorBlackOnThrow(img) ==
    IF ~img.loads THEN Fallback
    ELSE IF ~img.ctx THEN Fallback
    ELSE IF img.throws THEN <<Num(0), Num(0), Num(0)>>
    ELSE IF Count(img.data) = 0 THEN Fallback
    ELSE << Divide(SumChannel(img.data, 1), Count(img.data)),
            Divide(SumChannel(img.data, 2), Count(img.data)),
            Divide(SumChannel(img.data, 3), Count(img.data)) >>

\* The triple the promise of computeAverageColor(url) resolves with
computeAverageColor(img) ==
    IF ~img.loads THEN Fallback
    ELSE IF ~img.ctx THEN Fallback
    ELSE IF img.throws THEN Fallback
    ELSE IF Count(img.data) = 0 THEN Fallback
    ELSE << Divide(SumChannel(img.data, 1), Count(img.data)),
            Divide(SumChannel(img.data, 2), Count(img.data)),
            Divide(SumChannel(img.data, 3), Count(img.data)) >>

-----------------------------------------------------------------------------
(* Values a render computes from the state *)

Length == Len(imageUrls)

\* useMemo, line 73
CurrentUrl(urls, i) == IF Len(urls) > 0 THEN <<urls[(i % Len(urls)) + 1]>> ELSE Absent

\* useMemo, lines 74-77
PreviousUrl(urls, prev) ==
    IF prev # <<>> /\ Len(urls) > 0 THEN <<urls[(prev[1] % Len(urls)) + 1]>> ELSE Absent

currentUrl == CurrentUrl(imageUrls, index)

\* currentUrl as the latest run of the hook body computed it
renderedUrl == CurrentUrl(imageUrls, renderIndex)

previousUrl == PreviousUrl(imageUrls, previousIndex)

\* dependency array of the timer effect, line 106, as the latest run of the hook body
\* built it
Deps == <<Length, intervalMs, crossfadeMs, renderIndex>>

-----------------------------------------------------------------------------
(* Browser timers: handle 0 never names a timer, as `if (ref.current)` guards *)

ClearTimer(timers, handle) == IF handle # 0 THEN {t \in timers : t.id # handle} ELSE timers

\* window.setInterval(callback, intervalMs): the callback closes over the render's
\* index, imageUrls.length and crossfadeMs
NewInterval(handle) ==
    [id |-> handle, index |-> renderIndex, length |-> Length, crossfadeMs |-> crossfadeMs,
     intervalMs |-> intervalMs, left |-> intervalMs]

NewTimeout(handle, ms) == [id |-> handle, left |-> ms]

-----------------------------------------------------------------------------
(* The timer effect, lines 88-106 *)

\* Faulty variant of NextIndex: the divisor is one too large
NextIndexOffByOne(i, length) == (i + 1) % (length + 1)

\* Faulty variant of NextIndex: the index does not wrap around
NextIndexNoWrap(i, length) == i + 1

\* setIndex((i) => (i + 1) % Math.max(1, imageUrls.length))
NextIndex(i, length) == (i + 1) % (IF length > 1 THEN length ELSE 1)

\* Faulty variant of ScheduleFade: the pending fade-clear is not cancelled
ScheduleFadeNoCancel(pending, ref, handle, ms) == pending \cup {NewTimeout(handle, ms)}

\* lines 96-99: the pending fade-clear is cancelled and a new one is scheduled
ScheduleFade(pending, ref, handle, ms) ==
    ClearTimer(pending, ref) \cup {NewTimeout(handle, ms)}

\* the effect's teardown, lines 101-104
TeardownIntervals(live, ref) == ClearTimer(live, ref)

\* Faulty variant of TeardownTimeouts: the pending fade-clear is left to fire
TeardownTimeoutsKeep(pending, ref) == pending

TeardownTimeouts(pending, ref) == ClearTimer(pending, ref)

\* the effect's body, lines 89-100
SetupIntervals(live, ref, handle) == ClearTimer(live, ref) \cup {NewInterval(handle)}

-----------------------------------------------------------------------------
(* The accent effect, lines 109-123 *)

\* `if (cancelled) return`, line 113
Accepted(s) == ~s.cancelled

\* Faulty variant of CancelLatest: the teardown does not set the flag
CancelNone(inflight, latest) == inflight

\* the effect's teardown, lines 120-122: the flag of the latest request is set
CancelLatest(inflight, latest) ==
    {IF s.id = latest THEN [s EXCEPT !.cancelled = TRUE] ELSE s : s \in inflight}

\* Faulty variant of RequestSample: the `if (!currentUrl) return` guard is missing
RequestSampleAlways(inflight, url, id) ==
    inflight \cup {[id |-> id, url |-> IF url = Absent THEN "" ELSE url[1],
                     cancelled |-> FALSE]}

\* the effect's body, lines 110-119
RequestSample(inflight, url, id) ==
    IF ~Truthy(url) THEN inflight
    ELSE inflight \cup {[id |-> id, url |-> url[1], cancelled |-> FALSE]}

\* the teardown the last run of the effect returned: none when that run returned at
\* line 110
CancelAccent(inflight, dep, latest) ==
    IF Truthy(dep) THEN CancelLatest(inflight, latest) ELSE inflight

\* Faulty variant of Primary: the boost is left out
PrimaryUnboosted(rgb) == toRgbTripletString(rgb[1], rgb[2], rgb[3])

Primary(rgb) == toRgbTripletString(boost(rgb[1]), boost(rgb[2]), boost(rgb[3]))

\* Faulty variant of Secondary: derived from the rounded components of the primary
SecondaryFromRounded(rgb) ==
    deriveSecondaryFromPrimary(Num(MathRound(boost(rgb[1]))), Num(MathRound(boost(rgb[2]))),
                               Num(MathRound(boost(rgb[3]))))

Secondary(rgb) == deriveSecondaryFromPrimary(boost(rgb[1]), boost(rgb[2]), boost(rgb[3]))

\* What the sample of an image comes to: the triple the promise of computeAverageColor
\* resolves with, line 112, and the two strings lines 115-118 derive from it.  An image
\* does not change, so the model computes this once for each URL, in the initial state.
Outcome(img) ==
    [rgb |-> computeAverageColor(img),
     primary |-> Primary(computeAverageColor(img)),
     secondary |-> Secondary(computeAverageColor(img))]

-----------------------------------------------------------------------------
(* Initial states: the hook after its first render and the first run of its effects *)

\* an image sequence of each length: "b" appears twice in a row, so an index change
\* need not change the current URL
UrlAt(k) == CASE k % 4 = 1 -> "a" [] k % 4 = 2 -> "b" [] k % 4 = 3 -> "b" [] OTHER -> "c"

Sequence(l) == [k \in 1..l |-> UrlAt(k)]

Pixel(r, g, b, a) == <<r, g, b, a>>

Decoded(data) == [loads |-> TRUE, ctx |-> TRUE, throws |-> FALSE, data |-> data]

Broken == [loads |-> FALSE, ctx |-> TRUE, throws |-> FALSE, data |-> <<>>]

\* "a" fails to load; "b" has means whose primaries are 0, 204 and 255; "c" has a
\* near-transparent pixel that does not contribute
Gallery ==
    [u \in Urls |->
        CASE u = "a" -> Broken
          [] u = "b" -> Decoded(<<Pixel(0, 194, 255, 255)>>)
          [] OTHER  -> Decoded(<<Pixel(10, 100, 200, 26), Pixel(255, 255, 255, 25)>>)]

\* useState('85 37 131'), line 68
DefaultPrimary == <<85, 37, 131>>

\* Faulty variant of DefaultSecondary: the default is derived from the default primary
DefaultSecondaryDerived == deriveSecondaryFromPrimary(Num(85), Num(37), Num(131))

\* useState('253 185 39'), line 69
DefaultSecondary == <<253, 185, 39>>

Mounted(urls, interval, crossfade, gallery) ==
    /\ imageUrls = urls
    /\ intervalMs = interval
    /\ crossfadeMs = crossfade
    /\ images = gallery
    /\ sampled = [u \in DOMAIN gallery |-> Outcome(gallery[u])]
    /\ index = 0
    /\ renderIndex = 0
    /\ previousIndex = <<>>
    /\ isFading = FALSE
    /\ accentPrimaryRgb = DefaultPrimary
    /\ accentSecondaryRgb = DefaultSecondary
    /\ timerRef = 1
    /\ fadeRef = 0
    /\ intervals = SetupIntervals({}, 0, 1)
    /\ timeouts = {}
    /\ nextHandle = 2
    /\ timerDeps = Deps
    /\ accentDep = renderedUrl
    /\ samples = RequestSample({}, renderedUrl, 1)
    /\ nextSample = IF Truthy(renderedUrl) THEN 2 ELSE 1
    /\ mounted = TRUE
    /\ ticks = 0
    /\ sinceTick = crossfade
    /\ applied = <<>>
    /\ overlapped = FALSE
    /\ stops = 0
    /\ reconfigs = 0
    /\ last = "mount"

\* a sequence whose first URL is the empty string, which line 110 takes for no URL
EmptyFirst == <<"", "b">>

Init ==
    \E urls \in {Sequence(l) : l \in 0..MaxLen} \cup {EmptyFirst},
       interval \in 1..MaxInterval, crossfade \in 0..MaxCrossfade :
        Mounted(urls, interval, crossfade, Gallery)

\* the hook's arguments, what they decode to, and the count of their changes: no step of
\* the hook itself changes them
config == <<imageUrls, intervalMs, crossfadeMs, images, sampled, reconfigs>>

-----------------------------------------------------------------------------
(* Steps *)

\* The setInterval callback, lines 92-100, run by a due interval timer
Tick(t) ==
    /\ t \in intervals
    /\ t.left = 0
    /\ ticks + reconfigs < MaxTicks
    /\ previousIndex' = <<t.index>>
    /\ isFading' = TRUE
    /\ index' = NextIndex(index, t.length)
    /\ timeouts' = ScheduleFade(timeouts, fadeRef, nextHandle, t.crossfadeMs)
    /\ fadeRef' = nextHandle
    /\ nextHandle' = nextHandle + 1
    /\ intervals' = (intervals \ {t}) \cup {[t EXCEPT !.left = t.intervalMs]}
    /\ ticks' = ticks + 1
    /\ sinceTick' = 0
    /\ overlapped' = (overlapped \/ \E p \in timeouts : p.id = fadeRef)
    /\ last' = "tick"
    /\ UNCHANGED <<config, renderIndex, accentPrimaryRgb, accentSecondaryRgb, timerRef, timerDeps,
                   accentDep, samples, nextSample, mounted, applied, stops>>

\* Faulty variant of FadeClear: the callback also resets previousIndex to null
FadeClearResetsPrevious(t) ==
    /\ t \in timeouts
    /\ t.left = 0
    /\ isFading' = FALSE
    /\ previousIndex' = <<>>
    /\ timeouts' = timeouts \ {t}
    /\ last' = "fadeclear"
    /\ UNCHANGED <<config, renderIndex, index, accentPrimaryRgb, accentSecondaryRgb,
                   timerRef, fadeRef, intervals, nextHandle, timerDeps, accentDep,
                   samples, nextSample, mounted, ticks, sinceTick, applied, overlapped, stops>>

\* The setTimeout callback, line 99, run by a due timeout
FadeClear(t) ==
    /\ t \in timeouts
    /\ t.left = 0
    /\ isFading' = FALSE
    /\ timeouts' = timeouts \ {t}
    /\ last' = "fadeclear"
    /\ UNCHANGED <<config, renderIndex, index, previousIndex, accentPrimaryRgb, accentSecondaryRgb,
                   timerRef, fadeRef, intervals, nextHandle, timerDeps, accentDep,
                   samples, nextSample, mounted, ticks, sinceTick, applied, overlapped, stops>>

\* One time unit passes
Advance ==
    /\ \/ \E t \in intervals \cup timeouts : t.left > 0
       \/ sinceTick < crossfadeMs
    /\ intervals' = {[t EXCEPT !.left = IF t.left > 0 THEN t.left - 1 ELSE 0] : t \in intervals}
    /\ timeouts' = {[t EXCEPT !.left = IF t.left > 0 THEN t.left - 1 ELSE 0] : t \in timeouts}
    /\ sinceTick' = IF sinceTick < crossfadeMs THEN sinceTick + 1 ELSE sinceTick
    /\ last' = "advance"
    /\ UNCHANGED <<config, renderIndex, index, previousIndex, isFading, accentPrimaryRgb,
                   accentSecondaryRgb, timerRef, fadeRef, nextHandle, timerDeps,
                   accentDep, samples, nextSample, mounted, ticks, applied, overlapped, stops>>

\* The timer effect's dependency array changed in the latest render
TimerEffectPending == timerDeps # Deps

\* The accent effect's dependency array changed in the latest render
AccentEffectPending == accentDep # renderedUrl

\* The re-render after a change of index: the hook body runs, lines 63-77.  React runs
\* the effects of the render before it renders again.
Render ==
    /\ mounted
    /\ ~TimerEffectPending /\ ~AccentEffectPending
    /\ index # renderIndex
    /\ renderIndex' = index
    /\ last' = "render"
    /\ UNCHANGED <<config, index, previousIndex, isFading, accentPrimaryRgb,
                   accentSecondaryRgb, timerRef, fadeRef, intervals, timeouts, nextHandle,
                   timerDeps, accentDep, samples, nextSample, mounted, ticks, sinceTick,
                   applied, overlapped, stops>>

\* The effects of the latest render run: every effect whose dependency array changed
\* runs its teardown, then its body, with the values of that render
FlushEffects ==
    /\ mounted
    /\ TimerEffectPending \/ AccentEffectPending
    /\ IF TimerEffectPending
       THEN /\ intervals' = SetupIntervals(TeardownIntervals(intervals, timerRef),
                                           timerRef, nextHandle)
            /\ timeouts' = TeardownTimeouts(timeouts, fadeRef)
            /\ timerRef' = nextHandle
            /\ nextHandle' = nextHandle + 1
            /\ timerDeps' = Deps
       ELSE UNCHANGED <<intervals, timeouts, timerRef, nextHandle, timerDeps>>
    /\ IF AccentEffectPending
       THEN /\ samples' = RequestSample(CancelAccent(samples, accentDep, nextSample - 1),
                                        renderedUrl, nextSample)
            /\ nextSample' = IF Truthy(renderedUrl) THEN nextSample + 1 ELSE nextSample
            /\ accentDep' = renderedUrl
       ELSE UNCHANGED <<samples, nextSample, accentDep>>
    /\ last' = "flush"
    /\ UNCHANGED <<config, index, renderIndex, previousIndex, isFading, accentPrimaryRgb,
                   accentSecondaryRgb, fadeRef, mounted, ticks, sinceTick, applied,
                   overlapped, stops>>

\* The promise of computeAverageColor resolves and the .then callback runs, lines 112-119
SampleDone(s) ==
    /\ s \in samples
    /\ samples' = samples \ {s}
    /\ IF Accepted(s)
       THEN /\ accentPrimaryRgb' = sampled[s.url].primary
            /\ accentSecondaryRgb' = sampled[s.url].secondary
            /\ applied' = <<s.id, s.url>>
       ELSE UNCHANGED <<accentPrimaryRgb, accentSecondaryRgb, applied>>
    /\ last' = IF Accepted(s) THEN "applied" ELSE "dropped"
    /\ UNCHANGED <<config, renderIndex, index, previousIndex, isFading, timerRef, fadeRef, intervals,
                   timeouts, nextHandle, timerDeps, accentDep, nextSample, mounted,
                   ticks, sinceTick, overlapped, stops>>

\* The component unmounts: the teardown of every effect runs.  React runs the effects
\* of the latest render before it commits the unmount.
Unmount ==
    /\ mounted
    /\ ~TimerEffectPending /\ ~AccentEffectPending
    /\ mounted' = FALSE
    /\ intervals' = TeardownIntervals(intervals, timerRef)
    /\ timeouts' = TeardownTimeouts(timeouts, fadeRef)
    /\ samples' = CancelAccent(samples, accentDep, nextSample - 1)
    /\ stops' = 1
    /\ last' = "stop"
    /\ UNCHANGED <<config, renderIndex, index, previousIndex, isFading, accentPrimaryRgb,
                   accentSecondaryRgb, timerRef, fadeRef, nextHandle, timerDeps,
                   accentDep, nextSample, ticks, sinceTick, applied, overlapped>>

\* The timer effect's teardown is run once more after the unmount
StopAgain ==
    /\ ~mounted
    /\ stops < MaxStops
    /\ intervals' = TeardownIntervals(intervals, timerRef)
    /\ timeouts' = TeardownTimeouts(timeouts, fadeRef)
    /\ stops' = stops + 1
    /\ last' = "stop"
    /\ UNCHANGED <<config, renderIndex, index, previousIndex, isFading, accentPrimaryRgb,
                   accentSecondaryRgb, timerRef, fadeRef, nextHandle, timerDeps,
                   accentDep, samples, nextSample, mounted, ticks, sinceTick, applied,
                   overlapped>>

Next ==
    \/ \E t \in intervals : Tick(t)
    \/ \E t \in timeouts : FadeClear(t)
    \/ Advance
    \/ Render
    \/ FlushEffects
    \/ \E s \in samples : SampleDone(s)
    \/ Unmount
    \/ StopAgain

Spec == Init /\ [][Next]_vars

(* The same hook when its caller re-renders it with other arguments *)

\* The re-render with a new imageUrls, intervalMs or crossfadeMs: the hook body runs with
\* the new arguments and the current index; its effects run in FlushEffects
Reconfigure(urls, interval, crossfade) ==
    /\ mounted
    /\ ~TimerEffectPending /\ ~AccentEffectPending
    /\ reconfigs < MaxReconfigs
    /\ ticks + reconfigs < MaxTicks
    /\ <<urls, interval, crossfade>> # <<imageUrls, intervalMs, crossfadeMs>>
    /\ imageUrls' = urls
    /\ intervalMs' = interval
    /\ crossfadeMs' = crossfade
    /\ renderIndex' = index
    /\ reconfigs' = reconfigs + 1
    /\ sinceTick' = IF sinceTick < crossfade THEN sinceTick ELSE crossfade
    /\ last' = "reconfigure"
    /\ UNCHANGED <<images, sampled, index, previousIndex, isFading, accentPrimaryRgb,
                   accentSecondaryRgb, timerRef, fadeRef, intervals, timeouts, nextHandle,
                   timerDeps, accentDep, samples, nextSample, mounted, ticks, applied,
                   overlapped, stops>>

InitReconfigure == Mounted(Sequence(2), 1, 1, Gallery)

\* The caller changes one argument at a time
NextReconfigure ==
    \/ Next
    \/ \E l \in 0..MaxLen : Reconfigure(Sequence(l), intervalMs, crossfadeMs)
    \/ \E interval \in 1..MaxInterval : Reconfigure(imageUrls, interval, crossfadeMs)
    \/ \E crossfade \in 0..MaxCrossfade : Reconfigure(imageUrls, intervalMs, crossfade)

SpecReconfigure == InitReconfigure /\ [][NextReconfigure]_vars


(* The same hook over a sweep of image contents: the first image of a two-image
   sequence has one opaque pixel whose channels run over all byte values *)

SweepImage(m) == Decoded(<<Pixel(m, ByteMax - m, (3 * m) % (ByteMax + 1), AlphaMax)>>)

InitSweep ==
    \E m \in 0..ByteMax :
        Mounted(Sequence(2), 1, 0, [u \in Urls |-> IF u = "a" THEN SweepImage(m) ELSE Gallery[u]])

SpecSweep == InitSweep /\ [][Next]_vars


(* The same hook over the outcomes of the extractor: the first image of a two-image
   sequence fails in one of three ways, or decodes to a small raster whose pixels are
   just below the alpha threshold or just at it *)

MaxPixels == 2

NoContext == [loads |-> TRUE, ctx |-> FALSE, throws |-> FALSE, data |-> <<>>]

Throwing == [loads |-> TRUE, ctx |-> TRUE, throws |-> TRUE, data |-> <<>>]

PixelChoices ==
    {Pixel(10, 100, 200, a) : a \in {25, 26}} \cup {Pixel(255, 0, 37, a) : a \in {25, 26}}

Rasters == UNION {[1..k -> PixelChoices] : k \in 1..MaxPixels}

ExtractImages == {Broken, NoContext, Throwing} \cup {Decoded(data) : data \in Rasters}

InitExtract ==
    \E img \in ExtractImages :
        Mounted(Sequence(2), 1, 0, [u \in Urls |-> IF u = "a" THEN img ELSE Gallery[u]])

SpecExtract == InitExtract /\ [][Next]_vars

-----------------------------------------------------------------------------
(* Properties *)

\* The transform c' = round(clamp(c * 1.25 + 20, 0, 255)) of an integer component c
RoundedLighten(c) == IF 5 * c + 80 >= 4 * ByteMax THEN ByteMax ELSE (5 * c + 82) \div 4

\* The same transform of the unrounded primary clamp(m * 1.05, 0, 255) of a mean m = x.n / x.d:
\* round(clamp(m * 1.05 * 1.25 + 20, 0, 255))
LightenOfBoosted(x) ==
    IF 105 * x.n + 1600 * x.d >= 80 * ByteMax * x.d THEN ByteMax
    ELSE (2 * (105 * x.n + 1600 * x.d) + 80 * x.d) \div (160 * x.d)

\* round(clamp(m * 1.05, 0, 255)) of a mean m = x.n / x.d, in exact arithmetic
RoundedBoost(x) ==
    IF 21 * x.n >= 20 * ByteMax * x.d THEN ByteMax
    ELSE (42 * x.n + 20 * x.d) \div (40 * x.d)

\* The sample whose result was applied last
AppliedSample == sampled[applied[2]].rgb

\* The exact means n / d of the image whose sample was applied last: per channel the sum
\* and the count over the pixels that are not skipped, and 85, 37 and 131 when the image
\* fails or no pixel is left
AppliedExact ==
    LET img == images[applied[2]]
    IN  IF ~img.loads \/ ~img.ctx \/ img.throws \/ Count(img.data) = 0
        THEN <<[n |-> 85, d |-> 1], [n |-> 37, d |-> 1], [n |-> 131, d |-> 1]>>
        ELSE [ch \in 1..3 |-> [n |-> SumChannel(img.data, ch), d |-> Count(img.data)]]

\* C1: for a sequence of length L >= 1, after N ticks the current index is N mod L,
\* whatever fade-clears, re-renders and sample completions came in between.
C1_IndexIsTicksModLength == Length >= 1 => index = ticks % Length

\* C1 witness: three ticks over three images have wrapped the index around to 0.
C1_Witness == Length = 3 /\ ticks = 3 /\ index = 0 /\ last = "tick"

\* C2: while the hook is mounted, isFading is true only while a fade-clear callback is
\* pending (scheduled or due), so that it returns to false once crossfadeMs has elapsed
\* after the tick: the callback is the only thing that sets isFading to false.
C2_FadingHasPendingClear == (mounted /\ isFading) => \E t \in timeouts : t.id = fadeRef

\* C3: a sample result is applied only while the image it was requested for is still the
\* active one (the current URL at the time the result arrives); and once the latest
\* request has resolved, the accent pair is the one derived from its image, whatever
\* stale result resolved later.
C3_AppliedOnlyForActiveImage ==
    /\ last = "applied" => <<applied[2]>> = currentUrl
    /\ (mounted /\ Truthy(accentDep) /\ \A s \in samples : s.id # nextSample - 1)
          => /\ applied = <<nextSample - 1, accentDep[1]>>
             /\ accentPrimaryRgb = sampled[accentDep[1]].primary
             /\ accentSecondaryRgb = sampled[accentDep[1]].secondary

\* C4: a tick sets isFading, and a fade-clear callback runs no earlier than crossfadeMs
\* after the most recent tick.
C4_NoEarlyFadeClear ==
    /\ last = "tick" => (isFading /\ sinceTick = 0)
    /\ last = "fadeclear" => (~isFading /\ sinceTick >= crossfadeMs)

\* C4 witness: with crossfadeMs >= intervalMs a tick cancelled a pending fade-clear, and
\* the fade-clear of the later tick has now run.
C4_Witness ==
    /\ last = "fadeclear" /\ overlapped /\ crossfadeMs >= intervalMs /\ crossfadeMs > 0
    /\ ticks >= 2

\* C5: once stopped, no recurring timer and no fade-clear callback is live and none has
\* fired, after the first run of the teardown and after every later run.
C5_StopCancelsTimers ==
    ~mounted => /\ intervals = {} /\ timeouts = {}
                /\ last \notin {"tick", "fadeclear", "render", "flush"}
                /\ stops >= 1

\* C5 witness: the teardown has run twice, the first time with a fade-clear pending
\* (with one image only the fade-clear callback ends a fade, so isFading stayed true).
C5_Witness == ~mounted /\ stops = 2 /\ Length = 1 /\ isFading /\ ticks >= 1

\* C6: after the stop, no step changes the accent pair, the index, the previous index or
\* isFading; a sample that completes then is dropped.
C6_StoppedStateIsFrozen ==
    [][~mounted => UNCHANGED <<accentPrimaryRgb, accentSecondaryRgb, index, previousIndex,
                               isFading>>]_vars

\* C6 witness: the only sample requested was in flight at the stop and has completed
\* since, leaving the default accents.
C6_Witness ==
    /\ ~mounted /\ last = "dropped" /\ samples = {} /\ nextSample = 2 /\ applied = <<>>
    /\ accentPrimaryRgb = <<85, 37, 131>>

\* C7 as claimed: when the applied sample is of an image that failed to load, the primary
\* is "89 39 138" and the secondary is the rounded transform of the published primary.
C7_FallbackSecondaryFromPublished ==
    (applied # <<>> /\ ~images[applied[2]].loads)
        => /\ accentPrimaryRgb = <<89, 39, 138>>
           /\ accentSecondaryRgb = <<RoundedLighten(accentPrimaryRgb[1]),
                                     RoundedLighten(accentPrimaryRgb[2]),
                                     RoundedLighten(accentPrimaryRgb[3])>>

\* C7 amended: when the applied sample is of an image that failed to load, the primary is
\* "89 39 138" and the secondary is "132 69 192", the rounded transform of the unrounded
\* boosted fallback (89.25, 38.85, 137.55).
C7_FallbackAccents ==
    (applied # <<>> /\ ~images[applied[2]].loads)
        => /\ accentPrimaryRgb = <<89, 39, 138>>
           /\ accentSecondaryRgb = <<132, 69, 192>>

\* C7 witness: the sample of "a", which fails to load, has just been applied.
C7_Witness == last = "applied" /\ applied[2] = "a" /\ ~images["a"].loads

\* C8 as claimed: once a sample has been applied, every secondary component is the rounded
\* transform of the corresponding integer component of the published primary.
C8_SecondaryFromPublished ==
    applied # <<>> =>
        \A k \in 1..3 : accentSecondaryRgb[k] = RoundedLighten(accentPrimaryRgb[k])

\* C8 amended: once a sample has been applied, every secondary component is the rounded
\* transform of the unrounded primary component clamp(m * 1.05, 0, 255) of the sampled
\* mean m, and is within 1 of the rounded transform of the published primary component;
\* for the published primaries 0, 204 and 255 it is 20, 255 and 255.
C8_SecondaryFromUnrounded ==
    applied # <<>> =>
        \A k \in 1..3 :
            /\ accentSecondaryRgb[k] = LightenOfBoosted(AppliedExact[k])
            /\ accentSecondaryRgb[k] - RoundedLighten(accentPrimaryRgb[k]) \in {-1, 0, 1}
            /\ accentPrimaryRgb[k] = 0 => accentSecondaryRgb[k] = 20
            /\ accentPrimaryRgb[k] >= 204 => accentSecondaryRgb[k] = ByteMax

\* C8 witness: an applied sample whose secondary differs from the transform of the
\* published primary (mean 85: primary 89, secondary 132, not 131).
C8_Witness ==
    /\ last = "applied" /\ images[applied[2]].loads
    /\ accentPrimaryRgb[1] = 89 /\ accentSecondaryRgb[1] = 132

\* C9 as claimed: in every state, the initial one included, the secondary is the rounded
\* transform of the published primary.
C9_SecondaryAlwaysFromPrimary ==
    \A k \in 1..3 : accentSecondaryRgb[k] = RoundedLighten(accentPrimaryRgb[k])

\* C9 amended: before any sample is applied the pair is the default purple and gold, which
\* the transform does not relate; afterwards primary and secondary both come from the one
\* sample applied last, the secondary being the rounded transform of that sample's
\* unrounded primary.
C9_PairFromOneSample ==
    /\ applied = <<>> =>
          (accentPrimaryRgb = <<85, 37, 131>> /\ accentSecondaryRgb = <<253, 185, 39>>)
    /\ applied # <<>> =>
          /\ accentPrimaryRgb = <<RoundedBoost(AppliedExact[1]),
                                  RoundedBoost(AppliedExact[2]),
                                  RoundedBoost(AppliedExact[3])>>
          /\ accentSecondaryRgb = <<LightenOfBoosted(AppliedExact[1]),
                                    LightenOfBoosted(AppliedExact[2]),
                                    LightenOfBoosted(AppliedExact[3])>>

\* C9 witness: a second sample, of another image, has been applied over the first.
C9_Witness ==
    /\ last = "applied" /\ applied = <<2, "b">> /\ accentSecondaryRgb = <<20, 255, 255>>

\* C10: in every state both accent triples have three integer components in 0..255.
C10_AccentsAreBytes ==
    /\ accentPrimaryRgb \in Seq(0..ByteMax) /\ Len(accentPrimaryRgb) = 3
    /\ accentSecondaryRgb \in Seq(0..ByteMax) /\ Len(accentSecondaryRgb) = 3

\* C10 witness: a sample with a channel mean of 255, whose boost and whose transform both
\* exceed 255 before the clamp, has been applied.
C10_Witness ==
    /\ last = "applied" /\ images[applied[2]].loads
    /\ AppliedSample[1] = Num(ByteMax)
    /\ accentPrimaryRgb[1] = ByteMax /\ accentSecondaryRgb[1] = ByteMax

\* The image whose sample was applied last
AppliedImage == images[applied[2]]

\* C11: a sample of an image that fails to load, has no raster context, or throws while it
\* is drawn or read back, resolves with the fallback (85, 37, 131), which is published as
\* "89 39 138" and "132 69 192" like any other result.
C11_FailuresResolveWithFallback ==
    (applied # <<>> /\ (~AppliedImage.loads \/ ~AppliedImage.ctx \/ AppliedImage.throws))
        => /\ AppliedSample = <<Num(85), Num(37), Num(131)>>
           /\ accentPrimaryRgb = <<89, 39, 138>>
           /\ accentSecondaryRgb = <<132, 69, 192>>

\* C11 witness: the sample of an image whose readback throws has just been applied.
C11_Witness == last = "applied" /\ AppliedImage.loads /\ AppliedImage.ctx /\ AppliedImage.throws

\* The pixels of a raster whose alpha byte is at least 26, i.e. at least 10% of 255
Contributing(data) == {i \in 1..Len(data) : data[i][4] >= 26}

RECURSIVE SumOver(_, _, _)
SumOver(S, data, ch) ==
    IF S = {} THEN 0
    ELSE LET i == CHOOSE j \in S : TRUE IN data[i][ch] + SumOver(S \ {i}, data, ch)

\* C17: for a decoded image the sample is, per channel, the arithmetic mean (the sum
\* divided by the count, as a double) over exactly the pixels whose alpha byte is at least
\* 26, and the fallback (85, 37, 131) when no pixel contributes; the published primary is
\* the rounded boost of that mean.
C17_MeanOverContributingPixels ==
    (applied # <<>> /\ AppliedImage.loads /\ AppliedImage.ctx /\ ~AppliedImage.throws) =>
        LET data == AppliedImage.data
            S == Contributing(data)
        IN  \A ch \in 1..3 :
                IF S = {}
                THEN AppliedSample[ch] = <<Num(85), Num(37), Num(131)>>[ch]
                ELSE /\ AppliedSample[ch] = Divide(SumOver(S, data, ch), Cardinality(S))
                     /\ accentPrimaryRgb[ch]
                          = RoundedBoost([n |-> SumOver(S, data, ch), d |-> Cardinality(S)])

\* C17 witness: the applied sample is of a raster with one pixel just below the threshold
\* (alpha 25) and one just at it (alpha 26); only the second is averaged.
C17_Witness ==
    /\ last = "applied" /\ AppliedImage.loads /\ Len(AppliedImage.data) = 2
    /\ AppliedImage.data[1] = <<255, 0, 37, 25>> /\ AppliedImage.data[2] = <<10, 100, 200, 26>>
    /\ AppliedSample = <<Num(10), Num(100), Num(200)>>
    /\ accentPrimaryRgb = <<11, 105, 210>>

\* C12 as claimed: in every state, if previousIndex is not null then isFading is true.
C12_PreviousOnlyWhileFading == previousIndex # <<>> => isFading

\* C12 amended: previousIndex is assigned only by a tick, which sets isFading in the same
\* step: it is null exactly until the first tick, and it is never reset, so it stays set
\* after the fade-clear has set isFading to false.
C12_PreviousSetByTick ==
    /\ previousIndex # <<>> <=> ticks >= 1
    /\ last = "tick" => (previousIndex # <<>> /\ isFading)

\* C12 witness: the fade-clear has run after a tick and previousIndex is still set.
C12_Witness == last = "fadeclear" /\ ~isFading /\ previousIndex = <<0>> /\ ticks = 1

\* C13: until a sample result is applied the accents are the defaults "85 37 131" and
\* "253 185 39", and no tick and no fade-clear changes the accent pair.
C13_DefaultsUntilSample ==
    /\ [](applied = <<>> =>
            (accentPrimaryRgb = <<85, 37, 131>> /\ accentSecondaryRgb = <<253, 185, 39>>))
    /\ [][last' \in {"tick", "fadeclear"} =>
            UNCHANGED <<accentPrimaryRgb, accentSecondaryRgb>>]_vars

\* C13 witness: two ticks and a fade-clear have run and no sample has been applied.
C13_Witness ==
    /\ applied = <<>> /\ ticks >= 2 /\ last = "fadeclear" /\ samples # {}
    /\ accentSecondaryRgb = <<253, 185, 39>>

\* C14: with one image, in every state after the first tick the previous and the current
\* image are both that image and the index is 0.
C14_SingleImage ==
    (Length = 1 /\ ticks >= 1) =>
        (index = 0 /\ currentUrl = <<imageUrls[1]>> /\ previousUrl = <<imageUrls[1]>>)

\* C14 witness: the second tick over a single image has just run.
C14_Witness == Length = 1 /\ ticks = 2 /\ last = "tick" /\ previousIndex = <<0>>

\* C15: with no image the index stays 0 through every tick, the current and the previous
\* image are absent, no sample is ever requested and the accents stay the defaults.
C15_EmptySequence ==
    Length = 0 =>
        /\ index = 0
        /\ currentUrl = Absent /\ previousUrl = Absent /\ accentDep = Absent
        /\ samples = {} /\ applied = <<>>
        /\ accentPrimaryRgb = <<85, 37, 131>> /\ accentSecondaryRgb = <<253, 185, 39>>

\* C15 witness: two ticks have run over the empty sequence.
C15_Witness == Length = 0 /\ ticks = 2 /\ last = "tick" /\ previousIndex = <<0>> /\ isFading

\* C16: right after any tick the current index is the successor, modulo max(1, L), of the
\* recorded previous index.
C16_PreviousIsIndexBeforeTick ==
    last = "tick" =>
        index = (previousIndex[1] + 1) % (IF Length > 1 THEN Length ELSE 1)

\* C18: in every state at most one recurring timer is live, and it is the one timerRef
\* names; at most one fade-clear is pending, and it is the one fadeRef names.
C18_NoLeakedTimers ==
    /\ Cardinality(intervals) <= 1 /\ \A t \in intervals : t.id = timerRef
    /\ Cardinality(timeouts) <= 1 /\ \A t \in timeouts : t.id = fadeRef
    /\ mounted => Cardinality(intervals) = 1

\* C18 witness: after a reconfiguration with a fade-clear pending and a later tick, one
\* recurring timer and one fade-clear are live.
C18_Witness ==
    /\ reconfigs = 1 /\ ticks >= 2 /\ last = "tick" /\ overlapped
    /\ Cardinality(intervals) = 1 /\ Cardinality(timeouts) = 1

=============================================================================
